---------------------------- MODULE Spec2Model ----------------------------
(***************************************************************************)
(* Model of personality/brain.py: the Emotions object (five counters with *)
(* get/set/decay), the Brain's action selection against ACTION_TABLE, the  *)
(* stress/delay computation of _random_delay, and the idle loop of the     *)
(* Brain thread interleaved with calls made from other threads.            *)
(*                                                                         *)
(* Python integers are unbounded, so no width is modelled.  Python runs    *)
(* threads one bytecode at a time: an attribute read or write is one step, *)
(* and a method made of several of them can be interleaved with another    *)
(* thread's steps.  The sequential specifications (SpecEmotions,           *)
(* SpecSelect, SpecDelay) run whole method calls from a single thread; the *)
(* specification Spec interleaves the Brain thread with a caller thread at *)
(* the granularity of attribute accesses.                                  *)
(***************************************************************************)
EXTENDS Integers, Sequences, FiniteSets, TLC

VARIABLES
    emotions,      \* Brain.emotions: the five fields of the Emotions object
    ACTION_TABLE,  \* Brain.ACTION_TABLE: the rule table (a sequence of entries)
    last,          \* the last completed call of a sequential specification
    history,       \* bookkeeping: argument of the last set(), decay() calls since
    brain,         \* the Brain thread (run): its position and its locals
    caller,        \* another thread calling emotions.set() and interact()
    ghost,         \* bookkeeping: what the last completed set() should have left
    heap           \* the objects of the specifications with several Emotions
                   \* objects: objs, the objects (class and fields), and
                   \* brains, the self.emotions reference of each Brain

vars == <<emotions, ACTION_TABLE, last, history, brain, caller, ghost, heap>>

\* the variables of the interleaved specification, left alone by the
\* sequential ones, and the other way round
threadvars == <<brain, caller, ghost>>
seqvars == <<last, history>>

Min(a, b) == IF a <= b THEN a ELSE b
Max(a, b) == IF a >= b THEN a ELSE b

----------------------------------------------------------------------------
(* Bounds of the model *)

\* decay() calls allowed after one set() in the sequential specifications
MaxDecays == 3

----------------------------------------------------------------------------
(* Emotions *)

\* the attribute names, in the order of get(), set() and the loop of decay()
Attrs == <<"wellness", "fullness", "displeasedness", "tiredness", "excitedness">>

AttrSet == {Attrs[k] : k \in 1..5}

\* decay_rate of Emotions.decay
decay_rate == 1

\* Emotions.__init__: every field starts at 0
Emotions_init == [a \in AttrSet |-> 0]

\* Emotions.get: the fields as a tuple, in the fixed order
Emotions_get(e) == <<e.wellness, e.fullness, e.displeasedness, e.tiredness, e.excitedness>>

\* set with each component snapped into [0,100] (what a clamping set would do)
Emotions_setClamped(vals) ==
    [wellness |-> Min(100, Max(0, vals[1])), fullness |-> Min(100, Max(0, vals[2])),
     displeasedness |-> Min(100, Max(0, vals[3])), tiredness |-> Min(100, Max(0, vals[4])),
     excitedness |-> Min(100, Max(0, vals[5]))]

\* Emotions.set: the fields replaced by the components of vals, no clamping
Emotions_set(vals) ==
    [wellness |-> vals[1], fullness |-> vals[2], displeasedness |-> vals[3],
     tiredness |-> vals[4], excitedness |-> vals[5]]

\* decay without the upper snap (a plausible slip: only the floor at 0 kept)
DecayValueNoUpper(value) == Max(0, value - decay_rate)

\* decay without the floor at 0 (a plausible slip: only the upper snap kept)
DecayValueNoFloor(value) == Min(100, value - decay_rate)

\* one iteration of the loop body of decay: value = max(0, value - decay_rate),
\* then min(100, value) is stored
DecayValue(value) == Min(100, Max(0, value - decay_rate))

\* Emotions.decay run to completion: the loop visits each attribute once
Emotions_decay(e) == [a \in AttrSet |-> DecayValue(e[a])]

----------------------------------------------------------------------------
(* Interaction and the rule table *)

\* class Interaction
NONE == 0
SOUND == 1
BACK_SENSOR == 2
TAIL_PULL == 3
UPSIDE_DOWN == 4
SHAKE == 5

Interaction == {NONE, SOUND, BACK_SENSOR, TAIL_PULL, UPSIDE_DOWN, SHAKE}

\* an ActionTuple is a 12-tuple: five minima, five maxima, the required
\* interaction (0 = none required) and the payload.
\* The one entry of the shipped Brain.ACTION_TABLE:
IdleEntry == <<0, 0, 0, 0, 0, 100, 100, 100, 100, 100, 0, "idle action">>

ShippedTable == <<IdleEntry>>

\* entry[0:5], entry[5:10], entry[10], entry[11] (Python indexes from 0)
EntryMins(entry) == SubSeq(entry, 1, 5)
EntryMaxs(entry) == SubSeq(entry, 6, 10)
EntryIntReq(entry) == entry[11]
EntryPayload(entry) == entry[12]

\* the range test with the upper bound forgotten
AllWithinNoMax(mins, emos, maxs) ==
    \A k \in 1..Min(Len(mins), Min(Len(emos), Len(maxs))) : mins[k] <= emos[k]

\* the range test with a strict lower bound
AllWithinStrictMin(mins, emos, maxs) ==
    \A k \in 1..Min(Len(mins), Min(Len(emos), Len(maxs))) :
        mins[k] < emos[k] /\ emos[k] <= maxs[k]

\* all(min_v <= emo <= max_v for min_v, emo, max_v in zip(mins, emotions, maxs));
\* zip stops at the shortest of its arguments
AllWithin(mins, emos, maxs) ==
    \A k \in 1..Min(Len(mins), Min(Len(emos), Len(maxs))) :
        mins[k] <= emos[k] /\ emos[k] <= maxs[k]

\* the interaction test without the "0 = no interaction required" case
InteractionOkExact(int_req, interaction) == int_req = interaction

\* the interaction test forgotten: every requirement accepted
InteractionOkIgnored(int_req, interaction) == int_req \in Interaction

\* the interaction test of _action
InteractionOk(int_req, interaction) == int_req = 0 \/ int_req = interaction

\* the two nested ifs of the loop body of _action
EntryRunnable(entry, emos, interaction) ==
    /\ AllWithin(EntryMins(entry), emos, EntryMaxs(entry))
    /\ InteractionOk(EntryIntReq(entry), interaction)

\* the loop of _action: the payloads of the runnable entries, in table order
RECURSIVE Runnable(_, _, _)
Runnable(table, emos, interaction) ==
    IF table = <<>> THEN <<>>
    ELSE LET entry == Head(table)
             rest == Runnable(Tail(table), emos, interaction)
         IN IF EntryRunnable(entry, emos, interaction)
            THEN <<EntryPayload(entry)>> \o rest
            ELSE rest

\* first-match selection: runnable[0] instead of choice(runnable)
ActionResultsFirstMatch(runnable) ==
    IF runnable # <<>>
    THEN {[outcome |-> "executed", executed |-> <<runnable[1]>>]}
    ELSE {[outcome |-> "no_runnable", executed |-> <<>>]}

\* the end of _action: choice(runnable) handed to _execute_action when the
\* list is not empty, the "No runnable actions" message otherwise.  The set
\* holds every result the call can have; choice() of an empty sequence would
\* raise IndexError.
ActionResults(runnable) ==
    IF runnable # <<>>
    THEN {[outcome |-> "executed", executed |-> <<runnable[k]>>] : k \in 1..Len(runnable)}
    ELSE {[outcome |-> "no_runnable", executed |-> <<>>]}

----------------------------------------------------------------------------
(* _random_delay *)

\* x << n and x >> n on Python integers: unbounded, and >> rounds toward
\* minus infinity
Shl(x, n) == x * (2 ^ n)
Shr(x, n) == x \div (2 ^ n)

\* the weighted sum with the tiredness term added instead of subtracted
RawStressTiredAdded(emos) ==
    Shl(100 - emos[1], 1) + Shl(100 - emos[2], 1) + emos[3] + emos[5] + Shl(emos[4], 1)

\* the weighted sum with wellness and fullness not inverted
RawStressNotInverted(emos) ==
    Shl(emos[1], 1) + Shl(emos[2], 1) + emos[3] + emos[5] - Shl(emos[4], 1)

\* the weighted sum of _random_delay, from the tuple returned by get():
\* (unwell << 1) + (hungry << 1) + displeasedness + excitedness - (tiredness << 1)
RawStress(emos) ==
    LET wellness == emos[1]
        fullness == emos[2]
        displeasedness == emos[3]
        tiredness == emos[4]
        excitedness == emos[5]
        unwell == 100 - wellness
        hungry == 100 - fullness
    IN Shl(unwell, 1) + Shl(hungry, 1) + displeasedness + excitedness - Shl(tiredness, 1)

\* the clamp without its lower end
ClampStressNoFloor(raw) == Min(255, Shr(raw, 2))

\* stress = max(0, min(255, stress >> 2))
ClampStress(raw) == Max(0, Min(255, Shr(raw, 2)))

Stress(emos) == ClampStress(RawStress(emos))

\* the sum handed to sleep without the halving
SleepArgNotHalved(stress, draw) == stress + draw

\* the halving rounded up instead of down
SleepArgRoundedUp(stress, draw) == Shr(stress + draw + 1, 1)

\* the argument of sleep: (stress + randint(1, 100)) >> 1
SleepArg(stress, draw) == Shr(stress + draw, 1)

\* the values randint(1, 100) can return
Draws == 1..100

----------------------------------------------------------------------------
(* Inputs of the sequential Emotions specification *)

\* components given to set(): below range, low, the maximum, above range
SetVals == {-1, 1, 100, 102}

SetTuples == [1..5 -> SetVals]

InRange(v) == 0 <= v /\ v <= 100

TupleInRange(t) == \A k \in 1..5 : InRange(t[k])

----------------------------------------------------------------------------
(* SpecEmotions: one thread calling set(), decay() and get() on an Emotions *)
(* object, each call run to completion.                                    *)

\* the Brain thread before start(): no locals
BrainUnstarted ==
    [pc |-> "unstarted", attr |-> 0, value |-> 0, emos |-> <<>>,
     stress |-> 0, delay |-> 0, outcome |-> "none", executed |-> <<>>]

\* the caller thread between two calls: no locals
CallerIdle ==
    [pc |-> "idle", attr |-> 0, vals |-> <<>>, interaction |-> NONE, emos |-> <<>>,
     outcome |-> "none", executed |-> <<>>]

\* expect, fresh: the fields a completed set() should have left and whether
\* the decay in progress began after it; done, args: the phases the current
\* _tick has completed, in order, and the interaction its selection was given
GhostInit ==
    [expect |-> Emotions_get(Emotions_init), fresh |-> FALSE, done |-> <<>>, args |-> <<>>]

\* no thread runs in the sequential specifications
\* no object besides the Emotions object of the one Brain
EmptyHeap == [objs |-> <<>>, brains |-> <<>>]

ThreadsIdle ==
    /\ brain = BrainUnstarted
    /\ caller = CallerIdle
    /\ ghost = GhostInit

InitEmotions ==
    /\ emotions = Emotions_init
    /\ ACTION_TABLE = ShippedTable
    /\ last = [op |-> "init"]
    /\ history = [start |-> Emotions_get(Emotions_init), decays |-> 0]
    /\ ThreadsIdle
    /\ heap = EmptyHeap

\* a call emotions.set(vals), run to completion
SetCall(vals) ==
    /\ emotions' = Emotions_set(vals)
    /\ last' = [op |-> "set", vals |-> vals]
    /\ history' = [start |-> vals, decays |-> 0]
    /\ UNCHANGED <<ACTION_TABLE, threadvars, heap>>

CallSet == \E vals \in SetTuples : SetCall(vals)

CallDecay ==
    /\ history.decays < MaxDecays
    /\ emotions' = Emotions_decay(emotions)
    /\ last' = [op |-> "decay"]
    /\ history' = [history EXCEPT !.decays = @ + 1]
    /\ UNCHANGED <<ACTION_TABLE, threadvars, heap>>

CallGet ==
    /\ last' = [op |-> "get", result |-> Emotions_get(emotions)]
    /\ UNCHANGED <<emotions, ACTION_TABLE, history, threadvars, heap>>

NextEmotions == CallSet \/ CallDecay \/ CallGet

SpecEmotions == InitEmotions /\ [][NextEmotions]_vars

----------------------------------------------------------------------------
(* SpecSelect: _action called from one thread (through interact) on a Brain *)
(* whose thread is not started, for every table, snapshot and interaction  *)
(* of the bounded input sets.                                              *)

\* rules allowed in a table
MaxRules == 2

ShakeEntry == <<0, 0, 0, 0, 0, 100, 100, 100, 100, 100, SHAKE, "shake action">>

SoundEntry == <<50, 0, 50, 0, 50, 100, 50, 100, 50, 100, SOUND, "sound action">>

RuleSet == {IdleEntry, ShakeEntry, SoundEntry}

Tables == UNION {[1..n -> RuleSet] : n \in 0..MaxRules}

\* emotion values of the snapshots: the minimum, a middle value, the maximum
\* and a value above the range (set() stores any integer unchanged, so the
\* Brain can hold each of these snapshots)
SelectVals == {0, 50, 100, 101}

InitSelect ==
    /\ emotions = Emotions_init
    /\ ACTION_TABLE \in Tables
    /\ last = [op |-> "init"]
    /\ history = [start |-> Emotions_get(Emotions_init), decays |-> 0]
    /\ ThreadsIdle
    /\ heap = EmptyHeap

\* the caller stores a snapshot with set() once, before its interact() calls
SelectSet ==
    /\ last.op = "init"
    /\ \E vals \in [1..5 -> SelectVals] : SetCall(vals)

\* interact() calling _tick() instead of _action(interaction): a decay and an
\* idle selection
CallInteractAsTick ==
    \E interaction \in Interaction :
        LET emos == Emotions_get(Emotions_decay(emotions))
            runnable == Runnable(ACTION_TABLE, emos, NONE)
        IN \E r \in ActionResults(runnable) :
               /\ emotions' = Emotions_decay(emotions)
               /\ history' = [history EXCEPT !.decays = Min(MaxDecays, @ + 1)]
               /\ last' = [op |-> "_action", interaction |-> NONE,
                           emotions |-> emos, outcome |-> r.outcome,
                           executed |-> r.executed]
               /\ UNCHANGED <<ACTION_TABLE, threadvars, heap>>

\* Brain.interact(interaction), that is _action(interaction), run to completion
CallInteract ==
    \E interaction \in Interaction :
        LET emos == Emotions_get(emotions)
            runnable == Runnable(ACTION_TABLE, emos, interaction)
        IN \E r \in ActionResults(runnable) :
               /\ last' = [op |-> "_action", interaction |-> interaction,
                           emotions |-> emos, outcome |-> r.outcome,
                           executed |-> r.executed]
               /\ UNCHANGED <<emotions, ACTION_TABLE, history, threadvars, heap>>

NextSelect == SelectSet \/ CallInteract

SpecSelect == InitSelect /\ [][NextSelect]_vars

----------------------------------------------------------------------------
(* SpecDelay: _random_delay called from one thread, for every snapshot of  *)
(* the bounded input set and every draw.  The call is two steps: the       *)
(* stress is computed and printed, then the draw is made and sleep called. *)

\* emotion values of the snapshots: far below range, the minimum, a value
\* that is no multiple of 4, the maximum, far above range
DelayVals == {-401, 0, 3, 100, 500}

InitDelay ==
    /\ emotions = Emotions_init
    /\ ACTION_TABLE = ShippedTable
    /\ last = [op |-> "init"]
    /\ history = [start |-> Emotions_get(Emotions_init), decays |-> 0]
    /\ ThreadsIdle
    /\ heap = EmptyHeap

\* the caller stores a snapshot with set() once, before the delay is computed
DelaySet ==
    /\ last.op = "init"
    /\ \E vals \in [1..5 -> DelayVals] : SetCall(vals)

\* _random_delay up to print(f"calculated stress: {stress}")
DelayStress ==
    /\ last.op # "stress"
    /\ last' = [op |-> "stress", emotions |-> Emotions_get(emotions),
                stress |-> Stress(Emotions_get(emotions))]
    /\ UNCHANGED <<emotions, ACTION_TABLE, history, threadvars, heap>>

\* sleep((stress + randint(1, 100)) >> 1)
DelaySleep ==
    /\ last.op = "stress"
    /\ \E draw \in Draws :
           last' = [op |-> "sleep", emotions |-> last.emotions, stress |-> last.stress,
                    draw |-> draw, delay |-> SleepArg(last.stress, draw)]
    /\ UNCHANGED <<emotions, ACTION_TABLE, history, threadvars, heap>>

NextDelay == DelaySet \/ DelayStress \/ DelaySleep

SpecDelay == InitDelay /\ [][NextDelay]_vars

----------------------------------------------------------------------------
(* Spec: the started Brain thread (run: _tick forever) interleaved with a  *)
(* caller thread that calls emotions.set() and interact() on the same      *)
(* Brain.  The code takes no lock, so a step is one read or one write of   *)
(* an attribute of the Emotions object together with the local computation *)
(* that follows it.                                                        *)

\* arguments the caller gives to set(): in-range and small, so that the
\* decays bring every reachable snapshot to a finite set
SetArgs == {<<1, 1, 1, 1, 1>>, <<2, 0, 2, 0, 2>>}

Init ==
    /\ emotions = Emotions_init
    /\ ACTION_TABLE = ShippedTable
    /\ last = [op |-> "init"]
    /\ history = [start |-> Emotions_get(Emotions_init), decays |-> 0]
    /\ ThreadsIdle
    /\ heap = EmptyHeap

\* Thread.start(): run() enters _tick(), which calls emotions.decay()
BrainStart ==
    /\ brain.pc = "unstarted"
    /\ brain' = [brain EXCEPT !.pc = "decay_get", !.attr = 1]
    /\ UNCHANGED <<emotions, ACTION_TABLE, seqvars, heap, caller, ghost>>

\* decay: value = getattr(self, attr)
DecayGet ==
    /\ brain.pc = "decay_get"
    /\ brain' = [brain EXCEPT !.pc = "decay_set", !.value = emotions[Attrs[brain.attr]]]
    /\ ghost' = IF brain.attr = 1 THEN [ghost EXCEPT !.fresh = TRUE] ELSE ghost
    /\ UNCHANGED <<emotions, ACTION_TABLE, seqvars, heap, caller>>

\* the bookkeeping of a write of decay
GhostDecaySet ==
    [ghost EXCEPT !.expect[brain.attr] = IF ghost.fresh THEN DecayValue(@) ELSE @,
                  !.done = IF brain.attr < 5 THEN @ ELSE Append(@, "decay")]

\* _tick calling _action right after decay, without _random_delay
DecaySetSkipsDelay ==
    /\ brain.pc = "decay_set"
    /\ emotions' = [emotions EXCEPT ![Attrs[brain.attr]] = DecayValue(brain.value)]
    /\ brain' = IF brain.attr < 5
                THEN [brain EXCEPT !.pc = "decay_get", !.attr = @ + 1, !.value = 0]
                ELSE [brain EXCEPT !.pc = "action_get", !.attr = 1, !.value = 0]
    /\ ghost' = GhostDecaySet
    /\ UNCHANGED <<ACTION_TABLE, seqvars, heap, caller>>

\* decay: value = max(0, value - decay_rate); setattr(self, attr, min(100, value));
\* after the last attribute _tick goes on to _random_delay, which calls get()
DecaySet ==
    /\ brain.pc = "decay_set"
    /\ emotions' = [emotions EXCEPT ![Attrs[brain.attr]] = DecayValue(brain.value)]
    /\ brain' = IF brain.attr < 5
                THEN [brain EXCEPT !.pc = "decay_get", !.attr = @ + 1, !.value = 0]
                ELSE [brain EXCEPT !.pc = "delay_get", !.attr = 1, !.value = 0]
    /\ ghost' = GhostDecaySet
    /\ UNCHANGED <<ACTION_TABLE, seqvars, heap, caller>>

\* one element of the tuple built by get(): the next attribute is read
GetStep(t, next) ==
    IF t.attr < 5
    THEN [t EXCEPT !.emos = Append(@, emotions[Attrs[t.attr]]), !.attr = @ + 1]
    ELSE [t EXCEPT !.emos = Append(@, emotions[Attrs[t.attr]]), !.attr = 0, !.pc = next]

\* _random_delay: the reads of self.emotions.get()
DelayGet ==
    /\ brain.pc = "delay_get"
    /\ brain' = GetStep(brain, "delay_sleep")
    /\ UNCHANGED <<emotions, ACTION_TABLE, seqvars, heap, caller, ghost>>

\* _random_delay: the stress is computed and printed, the draw is made and
\* sleep is called
BrainSleep ==
    /\ brain.pc = "delay_sleep"
    /\ \E draw \in Draws :
           brain' = [brain EXCEPT !.pc = "sleeping",
                                  !.stress = Stress(brain.emos),
                                  !.delay = SleepArg(Stress(brain.emos), draw)]
    /\ ghost' = [ghost EXCEPT !.done = Append(@, "stress")]
    /\ UNCHANGED <<emotions, ACTION_TABLE, seqvars, heap, caller>>

\* sleep returns, _random_delay returns, _tick calls _action(Interaction.NONE)
BrainWake ==
    /\ brain.pc = "sleeping"
    /\ brain' = [brain EXCEPT !.pc = "action_get", !.attr = 1, !.emos = <<>>,
                              !.stress = 0, !.delay = 0]
    /\ ghost' = [ghost EXCEPT !.done = Append(@, "delay")]
    /\ UNCHANGED <<emotions, ACTION_TABLE, seqvars, heap, caller>>

\* _action: the reads of self.emotions.get()
ActionGet ==
    /\ brain.pc = "action_get"
    /\ brain' = GetStep(brain, "action_select")
    /\ UNCHANGED <<emotions, ACTION_TABLE, seqvars, heap, caller, ghost>>

\* _action: the loop over the table and the choice
SelectStep(t, interaction) ==
    {[t EXCEPT !.pc = "action_end", !.outcome = r.outcome, !.executed = r.executed] :
        r \in ActionResults(Runnable(ACTION_TABLE, t.emos, interaction))}

ActionSelect ==
    /\ brain.pc = "action_select"
    /\ brain' \in SelectStep(brain, NONE)
    /\ ghost' = [ghost EXCEPT !.done = Append(@, "select"), !.args = <<NONE>>]
    /\ UNCHANGED <<emotions, ACTION_TABLE, seqvars, heap, caller>>

\* a no-match outcome ending the thread (as an exception raised by _action
\* would): the next _tick starts only after an executed payload
ActionEndStopsOnNoMatch ==
    /\ brain.pc = "action_end"
    /\ brain.outcome = "executed"
    /\ brain' = [BrainUnstarted EXCEPT !.pc = "decay_get", !.attr = 1]
    /\ ghost' = [ghost EXCEPT !.done = <<>>, !.args = <<>>]
    /\ UNCHANGED <<emotions, ACTION_TABLE, seqvars, heap, caller>>

\* _execute_action (or the "No runnable actions" message) prints; _action and
\* _tick return and run() starts the next _tick
ActionEnd ==
    /\ brain.pc = "action_end"
    /\ brain' = [BrainUnstarted EXCEPT !.pc = "decay_get", !.attr = 1]
    /\ ghost' = [ghost EXCEPT !.done = <<>>, !.args = <<>>]
    /\ UNCHANGED <<emotions, ACTION_TABLE, seqvars, heap, caller>>

\* the caller enters emotions.set(vals): self.wellness = vals[0]
CallerSetStart ==
    /\ caller.pc = "idle"
    /\ \E vals \in SetArgs :
           /\ emotions' = [emotions EXCEPT ![Attrs[1]] = vals[1]]
           /\ caller' = [caller EXCEPT !.pc = "set", !.attr = 2, !.vals = vals]
    /\ UNCHANGED <<ACTION_TABLE, seqvars, heap, brain, ghost>>

\* set: the next assignment; after the last one the call returns
CallerSetStep ==
    /\ caller.pc = "set"
    /\ emotions' = [emotions EXCEPT ![Attrs[caller.attr]] = caller.vals[caller.attr]]
    /\ caller' = IF caller.attr < 5 THEN [caller EXCEPT !.attr = @ + 1] ELSE CallerIdle
    /\ ghost' = IF caller.attr < 5 THEN ghost
                ELSE [ghost EXCEPT !.expect = caller.vals, !.fresh = FALSE]
    /\ UNCHANGED <<ACTION_TABLE, seqvars, heap, brain>>

\* the caller enters interact(interaction): _action reads self.wellness
CallerInteractStart ==
    /\ caller.pc = "idle"
    /\ \E interaction \in Interaction :
           caller' = GetStep([caller EXCEPT !.pc = "get", !.attr = 1,
                                            !.interaction = interaction], "select")
    /\ UNCHANGED <<emotions, ACTION_TABLE, seqvars, heap, brain, ghost>>

\* interact: the other reads of get()
CallerGet ==
    /\ caller.pc = "get"
    /\ caller' = GetStep(caller, "select")
    /\ UNCHANGED <<emotions, ACTION_TABLE, seqvars, heap, brain, ghost>>

\* interact: the loop over the table and the choice
CallerSelect ==
    /\ caller.pc = "select"
    /\ caller' \in SelectStep(caller, caller.interaction)
    /\ UNCHANGED <<emotions, ACTION_TABLE, seqvars, heap, brain, ghost>>

\* interact: the payload (or the message) is printed and the call returns
CallerEnd ==
    /\ caller.pc = "action_end"
    /\ caller' = CallerIdle
    /\ UNCHANGED <<emotions, ACTION_TABLE, seqvars, heap, brain, ghost>>

BrainNext ==
    \/ BrainStart \/ DecayGet \/ DecaySet \/ DelayGet \/ BrainSleep
    \/ BrainWake \/ ActionGet \/ ActionSelect \/ ActionEnd

CallerNext ==
    \/ CallerSetStart \/ CallerSetStep
    \/ CallerInteractStart \/ CallerGet \/ CallerSelect \/ CallerEnd

Next == BrainNext \/ CallerNext

Spec == Init /\ [][Next]_vars

----------------------------------------------------------------------------
(* SpecIdle: the Brain thread interleaved with a caller that only calls     *)
(* interact(): set() is never called.  The table is the shipped one or a    *)
(* table whose only rule requires SHAKE, so that the idle selection finds   *)
(* no runnable action.  Once started, the Brain thread is scheduled fairly  *)
(* and sleep() returns after its finite delay: weak fairness on its steps.  *)

IdleTables == {ShippedTable, <<ShakeEntry>>}

InitIdle ==
    /\ emotions = Emotions_init
    /\ ACTION_TABLE \in IdleTables
    /\ last = [op |-> "init"]
    /\ history = [start |-> Emotions_get(Emotions_init), decays |-> 0]
    /\ ThreadsIdle
    /\ heap = EmptyHeap

\* the steps of the started Brain thread
BrainRun ==
    \/ DecayGet \/ DecaySet \/ DelayGet \/ BrainSleep
    \/ BrainWake \/ ActionGet \/ ActionSelect \/ ActionEnd

\* the steps of a caller that only calls interact()
CallerInteractNext == CallerInteractStart \/ CallerGet \/ CallerSelect \/ CallerEnd

NextIdle == BrainStart \/ BrainRun \/ CallerInteractNext

SpecIdle == InitIdle /\ [][NextIdle]_vars /\ WF_vars(BrainRun)

\* ---------------------------------------------------------------------------
\* The idle loop and interact() on an object that a completed set() left
\* with non-zero fields before start(): decay() is the only writer
\* ---------------------------------------------------------------------------

\* arguments of the set() made before start()
SnapStarts == {<<1, 1, 1, 1, 1>>, <<2, 1, 2, 1, 2>>}

InitSnapshot ==
    /\ \E vals \in SnapStarts :
           /\ emotions = Emotions_set(vals)
           /\ history = [start |-> vals, decays |-> 0]
    /\ ACTION_TABLE = ShippedTable
    /\ last = [op |-> "init"]
    /\ ThreadsIdle
    /\ heap = EmptyHeap

SpecSnapshot == InitSnapshot /\ [][NextIdle]_vars

\* ---------------------------------------------------------------------------
\* Several objects: the Emotions class of personality/__init__.py next to
\* the one of personality/brain.py, and two Brain instances
\* ---------------------------------------------------------------------------

\* personality/__init__.py, Emotions.__init__
Package_init ==
    [wellness |-> 0, fullness |-> 0, displeasedness |-> 0,
     tiredness |-> 0, excitedness |-> 0]

\* personality/__init__.py, Emotions.decay: the value its loop body leaves
\* in the loop variable for a field that holds value
PackageLoopValue(value) ==
    LET emotion == IF value >= decay_rate THEN value - decay_rate ELSE 0
    IN IF emotion > 100 THEN 100 ELSE emotion

\* personality/__init__.py, Emotions.decay: the loop runs over a list of the
\* five values and assigns only its loop variable; no field is assigned
Package_decay(e) ==
    LET emotion == [a \in AttrSet |-> PackageLoopValue(e[a])]
    IN e

\* o.get(), o.set(vals), o.decay() on an object of either class
ObjGet(o) == Emotions_get(o.fields)
ObjSet(o, vals) == [o EXCEPT !.fields = Emotions_set(vals)]
ObjDecay(o) ==
    [o EXCEPT !.fields = IF o.cls = "brain.Emotions" THEN Emotions_decay(@)
                         ELSE Package_decay(@)]

\* Emotions as a class attribute of Brain: every Brain refers to one object
NewBrainSharedEmotions(h) ==
    IF h.objs = <<>>
    THEN [objs |-> <<[cls |-> "brain.Emotions", fields |-> Emotions_init]>>,
          brains |-> <<1>>]
    ELSE [h EXCEPT !.brains = Append(@, 1)]

\* Brain.__init__: self.emotions = Emotions(), a new object for each Brain
NewBrain(h) ==
    [objs |-> Append(h.objs, [cls |-> "brain.Emotions", fields |-> Emotions_init]),
     brains |-> Append(h.brains, Len(h.objs) + 1)]

\* the five counters of Brain b
BrainEmotions(h, b) == h.objs[h.brains[b]]

\* arguments of the set() calls and tables of the two-Brain specification
TwoVals == {<<2, 2, 2, 2, 2>>, <<50, 0, 50, 0, 50>>}
TwoTables == {ShippedTable, <<IdleEntry, SoundEntry>>}
TwoDraws == {1, 100}

\* A = Brain(); B = Brain()
InitTwo ==
    /\ emotions = Emotions_init
    /\ ACTION_TABLE \in TwoTables
    /\ last = [op |-> "init"]
    /\ history = [start |-> Emotions_get(Emotions_init), decays |-> 0]
    /\ brain = BrainUnstarted
    /\ caller = CallerIdle
    /\ ghost = GhostInit
    /\ heap = NewBrain(NewBrain(EmptyHeap))

\* b.emotions.set(vals)
TwoSet(b) ==
    /\ \E vals \in TwoVals :
           heap' = [heap EXCEPT !.objs[heap.brains[b]] = ObjSet(@, vals)]
    /\ last' = [op |-> "set", brain |-> b]
    /\ UNCHANGED <<emotions, ACTION_TABLE, history, threadvars>>

\* b.emotions.decay()
TwoDecay(b) ==
    /\ heap' = [heap EXCEPT !.objs[heap.brains[b]] = ObjDecay(@)]
    /\ last' = [op |-> "decay", brain |-> b]
    /\ UNCHANGED <<emotions, ACTION_TABLE, history, threadvars>>

\* b._tick(): decay(), _random_delay(), _action(Interaction.NONE)
TwoTick(b) ==
    \E draw \in TwoDraws :
        LET decayed == ObjDecay(BrainEmotions(heap, b))
        IN /\ heap' = [heap EXCEPT !.objs[heap.brains[b]] = decayed]
           /\ last' = [op |-> "_tick", brain |-> b,
                       sleep |-> SleepArg(Stress(ObjGet(decayed)), draw),
                       executed |-> ActionResults(
                           Runnable(ACTION_TABLE, ObjGet(decayed), NONE))]
           /\ UNCHANGED <<emotions, ACTION_TABLE, history, threadvars>>

\* b.interact(interaction)
TwoInteract(b) ==
    \E interaction \in Interaction :
        /\ last' = [op |-> "interact", brain |-> b, interaction |-> interaction,
                    executed |-> ActionResults(
                        Runnable(ACTION_TABLE, ObjGet(BrainEmotions(heap, b)),
                                 interaction))]
        /\ UNCHANGED <<emotions, ACTION_TABLE, history, threadvars, heap>>

NextTwo ==
    \E b \in 1..2 : TwoSet(b) \/ TwoDecay(b) \/ TwoTick(b) \/ TwoInteract(b)

SpecTwo == InitTwo /\ [][NextTwo]_vars

\* arguments of the set() calls made on both Emotions objects
EquivVals == {<<1, 1, 1, 1, 1>>, <<3, 0, 3, 0, 3>>, <<101, 2, 0, 2, 101>>}

\* one object of each class, both just constructed
InitEquiv ==
    /\ emotions = Emotions_init
    /\ ACTION_TABLE = ShippedTable
    /\ last = [op |-> "init"]
    /\ history = [start |-> Emotions_get(Emotions_init), decays |-> 0]
    /\ brain = BrainUnstarted
    /\ caller = CallerIdle
    /\ ghost = GhostInit
    /\ heap = [objs |-> <<[cls |-> "brain.Emotions", fields |-> Emotions_init],
                          [cls |-> "personality.Emotions", fields |-> Package_init]>>,
               brains |-> <<>>]

\* set(vals) on both objects
EquivSet ==
    /\ \E vals \in EquivVals :
           heap' = [heap EXCEPT !.objs = [k \in 1..2 |-> ObjSet(@[k], vals)]]
    /\ last' = [op |-> "set"]
    /\ UNCHANGED <<emotions, ACTION_TABLE, history, threadvars>>

\* decay() on both objects
EquivDecay ==
    /\ heap' = [heap EXCEPT !.objs = [k \in 1..2 |-> ObjDecay(@[k])]]
    /\ last' = [op |-> "decay"]
    /\ UNCHANGED <<emotions, ACTION_TABLE, history, threadvars>>

\* get() on both objects
EquivGet ==
    /\ last' = [op |-> "get",
                result |-> [k \in 1..2 |-> ObjGet(heap.objs[k])]]
    /\ UNCHANGED <<emotions, ACTION_TABLE, history, threadvars, heap>>

NextEquiv == EquivSet \/ EquivDecay \/ EquivGet

SpecEquiv == InitEquiv /\ [][NextEquiv]_vars

----------------------------------------------------------------------------
(* Claims *)

\* C1 (as stated): in every reachable state of an Emotions object, after any
\* sequence of set() and decay() calls with any integer arguments, each of
\* the five counters is in [0,100].
C1_AlwaysInRange == \A a \in AttrSet : InRange(emotions[a])

\* C1 (amended): each counter is in [0,100] after construction, after every
\* decay() and after every set() whose five arguments are in [0,100]; set()
\* stores its arguments unchanged, so after a set() with an out-of-range
\* argument the counters are exactly those arguments until the next decay().
C1_InRangeUnlessSetOutOfRange ==
    /\ (history.decays = 0 => Emotions_get(emotions) = history.start)
    /\ (history.decays > 0 \/ TupleInRange(history.start)) => C1_AlwaysInRange

\* C1 witness: a decay() has run after a set() with arguments below and above
\* the range, and snapped them to 0 and to 100.
C1_Witness ==
    /\ last.op = "decay"
    /\ history.start = <<-1, 102, 1, 100, 102>>
    /\ history.decays = 1
    /\ Emotions_get(emotions) = <<0, 100, 0, 99, 100>>

\* C2: from a state with every dimension in [0,100], after N consecutive
\* decay() calls every dimension equals max(0, initial - N * decay_rate), and
\* it is in [0,100] at every intermediate step.
C2_DecayBound ==
    TupleInRange(history.start) =>
        \A k \in 1..5 :
            /\ Emotions_get(emotions)[k] = Max(0, history.start[k] - history.decays * decay_rate)
            /\ InRange(Emotions_get(emotions)[k])

\* C2 witness: three decays from (1,100,1,100,100): the low fields are held
\* at 0 and the others have lost exactly 3.
C2_Witness ==
    /\ history.start = <<1, 100, 1, 100, 100>>
    /\ history.decays = 3
    /\ Emotions_get(emotions) = <<0, 97, 0, 97, 97>>

\* a rule matches in the sense of the claims: every bound is respected and
\* the required interaction is 0 or the supplied one
RuleMatches(entry, emos, interaction) ==
    /\ \A d \in 1..5 : entry[d] <= emos[d] /\ emos[d] <= entry[d + 5]
    /\ (entry[11] = NONE \/ entry[11] = interaction)

SomeRuleMatches(table, emos, interaction) ==
    \E k \in 1..Len(table) : RuleMatches(table[k], emos, interaction)

\* C3: any payload _action hands to _execute_action is the payload of a rule
\* whose ten bounds hold for the snapshot read at the start of the call and
\* whose required interaction is 0 or the supplied interaction.
C3_SelectionSound ==
    (last.op = "_action" /\ last.outcome = "executed") =>
        /\ Len(last.executed) = 1
        /\ \E k \in 1..Len(ACTION_TABLE) :
               /\ ACTION_TABLE[k][12] = last.executed[1]
               /\ RuleMatches(ACTION_TABLE[k], last.emotions, last.interaction)

\* C3 witness: with a table of the SHAKE rule and the SOUND rule, the snapshot
\* (50,50,50,50,50) and interaction SOUND, the SOUND rule's payload is run.
C3_Witness ==
    /\ ACTION_TABLE = <<ShakeEntry, SoundEntry>>
    /\ last.op = "_action"
    /\ last.interaction = SOUND
    /\ last.emotions = <<50, 50, 50, 50, 50>>
    /\ last.executed = <<"sound action">>

\* C4: if at least one rule matches, _action executes some payload; the "no
\* runnable action" outcome occurs only when no rule matches.
C4_SelectionComplete ==
    last.op = "_action" =>
        /\ SomeRuleMatches(ACTION_TABLE, last.emotions, last.interaction)
               => (last.outcome = "executed" /\ Len(last.executed) = 1)
        /\ last.outcome = "no_runnable"
               => ~SomeRuleMatches(ACTION_TABLE, last.emotions, last.interaction)

\* C4 witness: the second rule of the table is the only one that matches
\* (interaction TAIL_PULL, first rule requires SHAKE) and its payload is run.
C4_Witness ==
    /\ ACTION_TABLE = <<ShakeEntry, IdleEntry>>
    /\ last.op = "_action"
    /\ last.interaction = TAIL_PULL
    /\ last.emotions = <<0, 50, 0, 50, 0>>
    /\ last.outcome = "executed"
    /\ last.executed = <<"idle action">>

\* C9 (as stated): with the shipped one-rule table, _action executes "idle
\* action" for any emotion snapshot the Brain can hold and any interaction.
C9_ShippedAlwaysIdleAction ==
    (ACTION_TABLE = ShippedTable /\ last.op = "_action") =>
        last.executed = <<"idle action">>

\* C9 (amended): with the shipped one-rule table, _action executes "idle
\* action" for any interaction and any snapshot whose five values are in
\* [0,100]; for a snapshot with a value outside [0,100] (which set() can
\* store) it executes nothing and reports no runnable action.
C9_ShippedIdleActionInRange ==
    (ACTION_TABLE = ShippedTable /\ last.op = "_action") =>
        IF TupleInRange(last.emotions)
        THEN last.outcome = "executed" /\ last.executed = <<"idle action">>
        ELSE last.outcome = "no_runnable" /\ last.executed = <<>>

\* C9 witness: shipped table, a snapshot on both ends of the range,
\* interaction SHAKE, "idle action" executed.
C9_Witness ==
    /\ ACTION_TABLE = ShippedTable
    /\ last.op = "_action"
    /\ last.interaction = SHAKE
    /\ last.emotions = <<0, 100, 50, 100, 0>>
    /\ last.executed = <<"idle action">>

\* C10: when no rule of the table matches, _action executes no payload,
\* raises no error, returns normally (with the "no runnable action" outcome)
\* and leaves the emotion state as it was read at the start of the call.
C10_NoMatchOutcome ==
    (last.op = "_action"
     /\ ~SomeRuleMatches(ACTION_TABLE, last.emotions, last.interaction)) =>
        /\ last.outcome = "no_runnable"
        /\ last.executed = <<>>
        /\ Emotions_get(emotions) = last.emotions

\* C10 witness: the example of the claim: emotions (0,0,0,0,0), a table whose
\* only rule requires SHAKE, interaction NONE.
C10_Witness ==
    /\ ACTION_TABLE = <<ShakeEntry>>
    /\ last.op = "_action"
    /\ last.interaction = NONE
    /\ last.emotions = <<0, 0, 0, 0, 0>>
    /\ Emotions_get(emotions) = <<0, 0, 0, 0, 0>>
    /\ last.outcome = "no_runnable"

\* C6: for every snapshot with each dimension in [0,100], the stress computed
\* in _random_delay is an integer in [0,255].
C6_StressBound ==
    (last.op = "stress" /\ TupleInRange(last.emotions)) =>
        last.stress \in 0..255

\* C6 witness: the valid snapshot (100,100,0,100,0), whose weighted sum is
\* -200, has stress 0.
C6_Witness ==
    /\ last.op = "stress"
    /\ last.emotions = <<100, 100, 0, 100, 0>>
    /\ last.stress = 0

\* C7: for every stress in [0,255] and every draw in [1,100], the delay passed
\* to sleep is floor((stress + draw) / 2) and is in [0,177].
C7_DelayBound ==
    (last.op = "sleep" /\ last.stress \in 0..255 /\ last.draw \in 1..100) =>
        /\ 2 * last.delay <= last.stress + last.draw
        /\ last.stress + last.draw < 2 * last.delay + 2
        /\ last.delay \in 0..177

\* C7 witness: stress 255 and draw 100 give the largest delay, 177.
C7_Witness ==
    /\ last.op = "sleep"
    /\ last.stress = 255
    /\ last.draw = 100
    /\ last.delay = 177

\* C8: between two valid snapshots that differ in one dimension, raising
\* excitedness or displeasedness never lowers the stress, and raising
\* tiredness, wellness or fullness never raises it.
C8_StressMonotone ==
    (last.op = "stress" /\ TupleInRange(last.emotions)) =>
        \A d \in 1..5 : \A v \in 0..100 :
            v > last.emotions[d] =>
                LET raised == [last.emotions EXCEPT ![d] = v]
                IN IF d \in {3, 5}
                   THEN Stress(raised) >= last.stress
                   ELSE Stress(raised) <= last.stress

\* C8 witness: a valid snapshot from which each dimension can be raised, and
\* raising tiredness strictly lowers the stress while raising excitedness
\* strictly raises it.
C8_Witness ==
    /\ last.op = "stress"
    /\ last.emotions = <<3, 3, 3, 3, 3>>
    /\ Stress([last.emotions EXCEPT ![4] = 100]) < last.stress
    /\ Stress([last.emotions EXCEPT ![5] = 100]) > last.stress

\* the snapshots read so far by the get() calls in progress or just finished
SnapshotsHeld == {brain.emos, caller.emos}

\* C5: while the idle loop is interleaved with interact() calls and set()
\* calls given in-range values, no snapshot outside [0,100]^5 is observed,
\* and no set() write is lost or corrupted: once a set(v) has completed (or
\* the object has been constructed) and no later set() has begun, every field
\* is v changed only by the decays that started after that set() completed.
C5_NoLostSet ==
    /\ \A a \in AttrSet : InRange(emotions[a])
    /\ \A t \in SnapshotsHeld : \A k \in 1..Len(t) : InRange(t[k])
    /\ caller.pc # "set" => Emotions_get(emotions) = ghost.expect

\* C11: a call interact(i) performs one action selection against the current
\* emotion snapshot and nothing else: the step that completes it leaves every
\* emotion counter as it was, performs no decay, and records a selection (no
\* stress, no delay) made on the snapshot held when the call began.
C11_InteractFrame ==
    [][(last' # last /\ last'.op = "_action") =>
           /\ emotions' = emotions
           /\ history' = history
           /\ last'.emotions = Emotions_get(emotions)
           /\ last'.interaction \in Interaction
           /\ DOMAIN last' = {"op", "interaction", "emotions", "outcome", "executed"}
           /\ last'.outcome \in {"executed", "no_runnable"}]_vars

\* C11 witness: interact(TAIL_PULL) has returned on a Brain holding
\* (50,100,0,50,100): the counters are those stored by set(), no decay counted.
C11_Witness ==
    /\ last.op = "_action"
    /\ last.interaction = TAIL_PULL
    /\ history = [start |-> <<50, 100, 0, 50, 100>>, decays |-> 0]
    /\ Emotions_get(emotions) = <<50, 100, 0, 50, 100>>
    /\ last.emotions = <<50, 100, 0, 50, 100>>

\* C13: for every integer 5-tuple v, also with components below 0 or above
\* 100, set(v) immediately followed by get() returns exactly v, and get()
\* leaves every counter as set() stored it.
C13_SetGetRoundTrip ==
    (last.op = "get" /\ history.decays = 0) =>
        /\ last.result = history.start
        /\ emotions = Emotions_set(history.start)

\* C13 witness: get() after set((-1,102,1,100,-1)) has returned that tuple.
C13_Witness ==
    /\ last.op = "get"
    /\ history = [start |-> <<-1, 102, 1, 100, -1>>, decays |-> 0]
    /\ last.result = <<-1, 102, 1, 100, -1>>

\* floor(a / b) for b > 0, rounding toward minus infinity: the quotient of
\* the magnitudes, rounded up and negated for a negative a
FloorDiv(a, b) == IF a >= 0 THEN a \div b ELSE -((-a + b - 1) \div b)

\* the delay of the reference formula, from a snapshot (w,f,d,t,e) and a draw
ReferenceDelay(emos, draw) ==
    LET raw == 2 * (100 - emos[1]) + 2 * (100 - emos[2]) + emos[3] + emos[5] - 2 * emos[4]
        S == Min(255, Max(0, FloorDiv(raw, 4)))
    IN FloorDiv(S + draw, 2)

\* C15: for every integer snapshot and every draw in [1,100], the duration
\* _random_delay passes to sleep equals floor((S + r) / 2) with
\* S = min(255, max(0, floor(raw / 4))), floor rounding toward minus infinity.
C15_DelayMatchesReference ==
    last.op = "sleep" =>
        /\ last.draw \in 1..100
        /\ last.delay = ReferenceDelay(last.emotions, last.draw)

\* C15 witness: the snapshot (100,100,3,500,0) has the negative weighted sum
\* -997, not a multiple of 4; with draw 7 the delay is 3.
C15_Witness ==
    /\ last.op = "sleep"
    /\ last.emotions = <<100, 100, 3, 500, 0>>
    /\ last.draw = 7
    /\ last.stress = 0
    /\ last.delay = 3

\* C16: for every table, snapshot and interaction, every matching rule's
\* payload is a possible outcome of _action, whatever the rule's position:
\* a call that executes it can be taken from the state.  (Every table and
\* snapshot occurs in a state from which no call has been made yet, and the
\* call does not read the record of an earlier one.)
C16_EveryMatchPossible ==
    last.op # "_action" =>
    \A interaction \in Interaction : \A k \in 1..Len(ACTION_TABLE) :
        RuleMatches(ACTION_TABLE[k], Emotions_get(emotions), interaction) =>
            ENABLED (/\ CallInteract
                     /\ last'.interaction = interaction
                     /\ last'.executed = <<ACTION_TABLE[k][12]>>)

\* C16 witness: the second of two matching rules has been executed.
C16_Witness ==
    /\ ACTION_TABLE = <<IdleEntry, ShakeEntry>>
    /\ last.op = "_action"
    /\ last.interaction = SHAKE
    /\ last.emotions = <<0, 100, 50, 0, 100>>
    /\ last.executed = <<"shake action">>

\* the phases a _tick has completed when the Brain thread is at each position
PhasesAt(pc) ==
    CASE pc \in {"unstarted", "decay_get", "decay_set"} -> <<>>
      [] pc \in {"delay_get", "delay_sleep"} -> <<"decay">>
      [] pc = "sleeping" -> <<"decay", "stress">>
      [] pc \in {"action_get", "action_select"} -> <<"decay", "stress", "delay">>
      [] pc = "action_end" -> <<"decay", "stress", "delay", "select">>

\* C12: each period of the driver loop performs, in this order and once
\* each, the decay, the stress computation from a snapshot read after the
\* decay, the delay wait and the action selection with interaction NONE; no
\* idle selection happens without a decay and a delay since the previous one.
C12_TickOrder ==
    /\ ghost.done = PhasesAt(brain.pc)
    /\ brain.pc = "sleeping" =>
           /\ Len(brain.emos) = 5
           /\ brain.stress = Stress(brain.emos)
    /\ brain.pc = "action_end" =>
           /\ ghost.done = <<"decay", "stress", "delay", "select">>
           /\ ghost.args = <<NONE>>

\* C12 witness: an idle selection has just been made while the caller is in
\* the middle of an interact() call.
C12_Witness ==
    /\ brain.pc = "action_end"
    /\ brain.executed = <<"idle action">>
    /\ ghost.done = <<"decay", "stress", "delay", "select">>
    /\ caller.pc = "get"

\* C17: once the Brain thread is started, under fair scheduling and finite
\* delays the idle loop completes a decay again and again and makes an idle
\* selection again and again; a no-match outcome or interleaved interact()
\* calls do not stop it, and in no state is the loop without a next step.
C17_IdleLoopLive ==
    /\ (brain.pc # "unstarted") ~> (brain.pc = "delay_get" /\ brain.attr = 1)
    /\ (brain.pc # "unstarted") ~> (brain.pc = "action_end")
    /\ [](brain.pc # "unstarted" => ENABLED BrainRun)

\* C17 witness: an idle selection has found no runnable action while the
\* caller is inside an interact() call.
C17_Witness ==
    /\ ACTION_TABLE = <<ShakeEntry>>
    /\ brain.pc = "action_end"
    /\ brain.outcome = "no_runnable"
    /\ caller.pc = "get"
    /\ caller.interaction = SHAKE

\* C19: a Brain on which set() is never called stays at (0,0,0,0,0) in every
\* reachable state, whatever ticks and interact() calls occur; the stress of
\* every tick is exactly 100 and every idle delay is in [50,100].
C19_NeverSetStaysZero ==
    /\ Emotions_get(emotions) = <<0, 0, 0, 0, 0>>
    /\ brain.pc = "sleeping" =>
           /\ brain.emos = <<0, 0, 0, 0, 0>>
           /\ brain.stress = 100
           /\ brain.delay \in 50..100

\* C19 witness (two ends of the delay range are reached; this is the upper
\* one): the thread sleeps 100 after a tick on the all-zero snapshot.
C19_Witness ==
    /\ brain.pc = "sleeping"
    /\ brain.stress = 100
    /\ brain.delay = 100
    /\ Emotions_get(emotions) = <<0, 0, 0, 0, 0>>
    /\ caller.pc = "action_end"

\* the fields after k whole decay() calls on fields vals
RECURSIVE DecayTimes(_, _)
DecayTimes(vals, k) ==
    IF k = 0 THEN vals
    ELSE DecayTimes([a \in 1..5 |-> DecayValue(vals[a])], k - 1)

\* the largest of the five values
Largest(vals) == CHOOSE v \in {vals[a] : a \in 1..5} : \A a \in 1..5 : v >= vals[a]

\* the states the object holds in full when decay() is its only writer:
\* the start state and the state after each whole decay(); a field that has
\* reached 0 stays there, so as many decays as the largest start value
\* cover them all
HeldInFull == {DecayTimes(history.start, k) : k \in 0..Largest(history.start)}

\* C18: get(), set() and decay() exclude one another, so the 5-tuple read by a
\* selection (in interact or in the idle path) or by _random_delay equals a
\* state the object held in full at some instant; it is never a mix of fields
\* from before and after a partly applied decay().
C18_AtomicSnapshots ==
    /\ brain.pc \in {"delay_sleep", "action_select"} => brain.emos \in HeldInFull
    /\ caller.pc = "select" => caller.emos \in HeldInFull

\* C14: with two Brain instances, an operation on one (tick, interact,
\* emotions.set, emotions.decay) leaves the five counters of the other
\* unchanged, and no operation modifies the rule table.
C14_BrainIsolation ==
    [][/\ ACTION_TABLE' = ACTION_TABLE
       /\ \A b \in 1..2 :
              ObjGet(BrainEmotions(heap', b)) # ObjGet(BrainEmotions(heap, b))
                  => last'.brain = b]_vars

\* Brain 1 was set and has ticked since, Brain 2 still holds what it was set to
C14_Witness ==
    /\ last.op = "_tick"
    /\ last.brain = 1
    /\ ObjGet(BrainEmotions(heap, 1)) = <<1, 1, 1, 1, 1>>
    /\ ObjGet(BrainEmotions(heap, 2)) = <<50, 0, 50, 0, 50>>

\* C20: the Emotions class of personality/__init__.py and the one of
\* personality/brain.py, started from the same state and driven by the same
\* set() and decay() calls, return the same 5-tuple from get() after every
\* step.
C20_SameGet ==
    /\ ObjGet(heap.objs[1]) = ObjGet(heap.objs[2])
    /\ last.op = "get" => last.result[1] = last.result[2]

=============================================================================
